---- MODULE Spec2Model ----
(***************************************************************************)
(* Model of ai-parser: Parser (option resolution, presets) and the async   *)
(* generator Parser.parse, which turns a byte stream read chunk by chunk   *)
(* into a sequence of emitted values.                                      *)
(*                                                                         *)
(* Text is a sequence of Unicode code points (integers), bytes are         *)
(* integers 0..255.  JavaScript values are tagged records:                 *)
(*   [t |-> "str", s], [t |-> "num", n], [t |-> "bool", b], [t |-> "null"],*)
(*   [t |-> "undef"], [t |-> "obj", m], [t |-> "arr", a], [t |-> "error"], *)
(*   [t |-> "func", name].                                                 *)
(***************************************************************************)
EXTENDS Integers, Sequences, FiniteSets, TLC

(***************************************************************************)
(* Bounds of the model: the number of lines of a stream, for the runs of   *)
(* one parse call, for the runs of two calls on one parser, for the runs   *)
(* of the DifyApp preset, for the runs of the four presets and for the     *)
(* runs whose termination is checked.                                      *)
(***************************************************************************)
MaxLines == 2

MaxTwoLines == 1

MaxAppLines == 2

MaxPresetLines == 2

MaxLiveLines == 2

(***************************************************************************)
(* Generic sequence helpers (String.prototype methods used by parse).      *)
(***************************************************************************)
Last(s) == s[Len(s)]

Front(s) == SubSeq(s, 1, Len(s) - 1)

\* String.prototype.startsWith(prefix)
StartsWith(s, prefix) ==
  /\ Len(s) >= Len(prefix)
  /\ SubSeq(s, 1, Len(prefix)) = prefix

\* String.prototype.substring(n): the text after the first n characters
Substring(s, n) == SubSeq(s, n + 1, Len(s))

\* the first index from i on where s has a character in (or, with inside = FALSE,
\* not in) the set cs; Len(s) + 1 if there is none
FirstIndex(s, i, cs, inside) ==
  CHOOSE j \in i .. (Len(s) + 1) :
    /\ j = Len(s) + 1 \/ ((s[j] \in cs) = inside)
    /\ \A k \in i .. (j - 1) : (s[k] \in cs) # inside

\* String.prototype.split on single-character separators: the pieces between
\* separators, in order; a text without separator gives one piece (itself).
RECURSIVE SplitFrom(_, _, _)
SplitTo(s, seps, i, j) ==
  IF j > Len(s) THEN <<SubSeq(s, i, Len(s))>>
  ELSE <<SubSeq(s, i, j - 1)>> \o SplitFrom(s, seps, j + 1)

SplitFrom(s, seps, i) == SplitTo(s, seps, i, FirstIndex(s, i, seps, TRUE))

Split(s, seps) == SplitFrom(s, seps, 1)

\* The white space String.prototype.trim removes (ECMAScript WhiteSpace and
\* LineTerminator code points).
TrimSpace ==
  {9, 10, 11, 12, 13, 32, 160, 5760, 8232, 8233, 8239, 8287, 12288, 65279}
    \cup (8192 .. 8202)

RECURSIVE TrimStart(_)
TrimStart(s) ==
  IF s # <<>> /\ Head(s) \in TrimSpace THEN TrimStart(Tail(s)) ELSE s

RECURSIVE TrimEnd(_)
TrimEnd(s) ==
  IF s # <<>> /\ Last(s) \in TrimSpace THEN TrimEnd(Front(s)) ELSE s

\* String.prototype.trim
Trim(s) == TrimEnd(TrimStart(s))

(***************************************************************************)
(* new TextDecoder().decode(value): the WHATWG UTF-8 decoder, run on one   *)
(* chunk with no {stream: true}: the decoder state is flushed at the end   *)
(* of every call (an unfinished sequence becomes U+FFFD) and a leading     *)
(* byte order mark is removed in every call.                               *)
(*                                                                         *)
(* The decoder is given by what each byte of the chunk adds to the text.   *)
(* A byte outside 128..191 always starts a sequence: an ASCII byte is its  *)
(* own character, a lead byte gives its character if the bytes it needs    *)
(* follow it, and U+FFFD if they do not (another byte or the end of the    *)
(* chunk comes first); a byte that can start nothing gives U+FFFD.  A byte *)
(* in 128..191 adds nothing if a lead byte before it takes it, and U+FFFD  *)
(* otherwise.                                                              *)
(***************************************************************************)
\* the number of continuation bytes a lead byte needs; 0 for any other byte
Utf8Needed(x) ==
  IF x \in 194 .. 223 THEN 1
  ELSE IF x \in 224 .. 239 THEN 2
  ELSE IF x \in 240 .. 244 THEN 3
  ELSE 0

\* the range of the first continuation byte after lead byte x
Utf8Lower(x) == IF x = 224 THEN 160 ELSE IF x = 240 THEN 144 ELSE 128

Utf8Upper(x) == IF x = 237 THEN 159 ELSE IF x = 244 THEN 143 ELSE 191

\* byte i + e is taken as the e-th continuation byte of the lead byte at i
Utf8Follows(b, i, e) ==
  /\ i + e <= Len(b)
  /\ IF e = 1
       THEN b[i + 1] \in Utf8Lower(b[i]) .. Utf8Upper(b[i])
       ELSE b[i + e] \in 128 .. 191

\* the lead byte at i gets the first d bytes it needs
Utf8Taken(b, i, d) ==
  /\ d <= Utf8Needed(b[i])
  /\ \A e \in 1 .. d : Utf8Follows(b, i, e)

\* the code point of the complete sequence of k + 1 bytes at i
Utf8CodePoint(b, i, k) ==
  IF k = 1 THEN (b[i] - 192) * 64 + (b[i + 1] - 128)
  ELSE IF k = 2 THEN ((b[i] - 224) * 64 + (b[i + 1] - 128)) * 64 + (b[i + 2] - 128)
  ELSE (((b[i] - 240) * 64 + (b[i + 1] - 128)) * 64 + (b[i + 2] - 128)) * 64
         + (b[i + 3] - 128)

\* what byte i adds to the text: a code point, or -1 for nothing
Utf8Emits(b, i) ==
  IF b[i] <= 127 THEN b[i]
  ELSE IF b[i] \in 128 .. 191
    THEN IF \E d \in 1 .. 3 : i - d >= 1 /\ Utf8Taken(b, i - d, d) THEN 0 - 1 ELSE 65533
  ELSE IF Utf8Needed(b[i]) = 0 THEN 65533
  ELSE IF Utf8Taken(b, i, Utf8Needed(b[i])) THEN Utf8CodePoint(b, i, Utf8Needed(b[i]))
  ELSE 65533

IsCodePoint(c) == c >= 0

Utf8Decode(b) == SelectSeq([i \in 1 .. Len(b) |-> Utf8Emits(b, i)], IsCodePoint)

StripBOM(t) == IF t # <<>> /\ Head(t) = 65279 THEN Tail(t) ELSE t

Decode(bytes) == StripBOM(Utf8Decode(bytes))

(***************************************************************************)
(* JavaScript values.                                                      *)
(***************************************************************************)
JStr(s) == [t |-> "str", s |-> s]

JNum(n) == [t |-> "num", n |-> n]

JBool(b) == [t |-> "bool", b |-> b]

JNull == [t |-> "null"]

JUndef == [t |-> "undef"]

JObj(m) == [t |-> "obj", m |-> m]

JArr(a) == [t |-> "arr", a |-> a]

\* an Error instance, with the payload it was made for
JError(s) == [t |-> "error", of |-> s]

\* a built-in function, as the methods of Object.prototype are
JFunc(name) == [t |-> "func", name |-> name]

EmptyObj == JObj(<<>>)

\* JavaScript truthiness (ToBoolean)
Truthy(v) ==
  CASE v.t = "undef" -> FALSE
    [] v.t = "null" -> FALSE
    [] v.t = "bool" -> v.b
    [] v.t = "num" -> v.n # 0
    [] v.t = "str" -> v.s # <<>>
    [] OTHER -> TRUE

RECURSIVE Digits(_)
Digits(n) == IF n < 10 THEN <<48 + n>> ELSE Append(Digits(n \div 10), 48 + (n % 10))

\* JsToString, as applied by the + and += of a string with a value
RECURSIVE JsToString(_)
RECURSIVE JoinValues(_)
JsToString(v) ==
  CASE v.t = "str" -> v.s
    [] v.t = "num" -> IF v.n < 0 THEN <<45>> \o Digits(0 - v.n) ELSE Digits(v.n)
    [] v.t = "bool" -> IF v.b THEN <<116, 114, 117, 101>> ELSE <<102, 97, 108, 115, 101>>
    [] v.t = "null" -> <<110, 117, 108, 108>>
    [] v.t = "undef" -> <<117, 110, 100, 101, 102, 105, 110, 101, 100>>
    [] v.t = "arr" -> JoinValues(v.a)
    [] v.t = "error" -> <<69, 114, 114, 111, 114>>
    \* "function name() { [native code] }"
    [] v.t = "func" -> <<102, 117, 110, 99, 116, 105, 111, 110, 32>> \o v.name
                       \o <<40, 41, 32, 123, 32, 91, 110, 97, 116, 105, 118, 101, 32, 99, 111, 100, 101, 93, 32, 125>>
    \* "[object Object]"
    [] OTHER -> <<91, 111, 98, 106, 101, 99, 116, 32, 79, 98, 106, 101, 99, 116, 93>>

\* Array.prototype.join(","): null and undefined elements give the empty text
JoinValues(a) ==
  IF a = <<>> THEN <<>>
  ELSE (IF Head(a).t \in {"null", "undef"} THEN <<>> ELSE JsToString(Head(a)))
         \o (IF Len(a) > 1 THEN <<44>> \o JoinValues(Tail(a)) ELSE <<>>)

(***************************************************************************)
(* JSON.parse, for the grammar: objects, arrays, strings without backslash *)
(* escapes, integers, true, false, null, and JSON white space between      *)
(* tokens.  A parse result is [ok, val, next]: next is the   *)
(* index after the value; ok = FALSE stands for the SyntaxError that       *)
(* JSON.parse throws.                                                      *)
(***************************************************************************)
JsonSpace == {9, 10, 13, 32}

JsonFail == [ok |-> FALSE, val |-> JUndef, next |-> 0]

JsonOk(v, n) == [ok |-> TRUE, val |-> v, next |-> n]

SkipWs(s, i) == FirstIndex(s, i, JsonSpace, FALSE)

\* s[i..] starts with the literal w
Matches(s, i, w) == i + Len(w) - 1 <= Len(s) /\ SubSeq(s, i, i + Len(w) - 1) = w

\* the string whose characters are s[i .. j-1], j being the index of the closing
\* quote: no closing quote or a control character is a SyntaxError (and so is, in
\* this grammar, a backslash)
StringTo(s, i, j) ==
  IF j > Len(s) THEN JsonFail
  ELSE IF \E k \in i .. (j - 1) : s[k] < 32 \/ s[k] = 92 THEN JsonFail
  ELSE JsonOk(JStr(SubSeq(s, i, j - 1)), j + 1)

\* a string, from i (after the opening quote) to the closing quote
ParseString(s, i) == StringTo(s, i, FirstIndex(s, i, {34}, TRUE))

\* the digits from i on: [n, next]
RECURSIVE ParseDigits(_, _, _)
ParseDigits(s, i, n) ==
  IF i <= Len(s) /\ s[i] \in 48 .. 57
    THEN ParseDigits(s, i + 1, 10 * n + (s[i] - 48))
    ELSE [n |-> n, next |-> i]

NumberOf(sign, d) == JsonOk(JNum(sign * d.n), d.next)

\* the digits of an integer start at j: 0 | [1-9][0-9]*
ParseUnsigned(s, j, sign) ==
  IF j > Len(s) \/ s[j] \notin 48 .. 57 THEN JsonFail
  ELSE IF s[j] = 48 THEN JsonOk(JNum(0), j + 1)
  ELSE NumberOf(sign, ParseDigits(s, j, 0))

\* an integer: -? (0 | [1-9][0-9]*)
ParseNumber(s, i) ==
  IF s[i] = 45 THEN ParseUnsigned(s, i + 1, 0 - 1) ELSE ParseUnsigned(s, i, 1)

\* m with key k set to v (a repeated key keeps the last value)
PutKey(m, k, v) == [x \in (DOMAIN m) \cup {k} |-> IF x = k THEN v ELSE m[x]]

RECURSIVE ParseValue(_, _)
RECURSIVE ParseMembers(_, _, _)
RECURSIVE ParseElements(_, _, _)

\* after a member's value v: "}" ends the object, "," brings another member
MemberEnd(s, e, m) ==
  IF e > Len(s) THEN JsonFail
  ELSE IF s[e] = 125 THEN JsonOk(JObj(m), e + 1)
  ELSE IF s[e] = 44 THEN ParseMembers(s, SkipWs(s, e + 1), m)
  ELSE JsonFail

MemberValue(s, key, v, m) ==
  IF ~v.ok THEN JsonFail ELSE MemberEnd(s, SkipWs(s, v.next), PutKey(m, key, v.val))

MemberColon(s, key, c, m) ==
  IF c > Len(s) \/ s[c] # 58 THEN JsonFail
  ELSE MemberValue(s, key, ParseValue(s, c + 1), m)

MemberKey(s, k, m) ==
  IF ~k.ok THEN JsonFail ELSE MemberColon(s, k.val.s, SkipWs(s, k.next), m)

\* the members of an object from i on: "key" : value, ...
ParseMembers(s, i, m) ==
  IF i > Len(s) \/ s[i] # 34 THEN JsonFail
  ELSE MemberKey(s, ParseString(s, i + 1), m)

\* after an element: "]" ends the array, "," brings another element
ElementEnd(s, e, a) ==
  IF e > Len(s) THEN JsonFail
  ELSE IF s[e] = 93 THEN JsonOk(JArr(a), e + 1)
  ELSE IF s[e] = 44 THEN ParseElements(s, e + 1, a)
  ELSE JsonFail

ElementValue(s, v, a) ==
  IF ~v.ok THEN JsonFail ELSE ElementEnd(s, SkipWs(s, v.next), Append(a, v.val))

\* the elements of an array from i on: value, ...
ParseElements(s, i, a) == ElementValue(s, ParseValue(s, i), a)

\* after "{" (j is the next index that is not white space)
ParseObject(s, j) ==
  IF j <= Len(s) /\ s[j] = 125 THEN JsonOk(EmptyObj, j + 1) ELSE ParseMembers(s, j, <<>>)

\* after "["
ParseArray(s, j) ==
  IF j <= Len(s) /\ s[j] = 93 THEN JsonOk(JArr(<<>>), j + 1) ELSE ParseElements(s, j, <<>>)

\* the value that starts at i, which is not white space
ParseValueAt(s, i) ==
  IF i > Len(s) THEN JsonFail
  ELSE CASE s[i] = 123 -> ParseObject(s, SkipWs(s, i + 1))
         [] s[i] = 91 -> ParseArray(s, SkipWs(s, i + 1))
         [] s[i] = 34 -> ParseString(s, i + 1)
         [] s[i] = 45 \/ s[i] \in 48 .. 57 -> ParseNumber(s, i)
         [] Matches(s, i, <<116, 114, 117, 101>>) -> JsonOk(JBool(TRUE), i + 4)
         [] Matches(s, i, <<102, 97, 108, 115, 101>>) -> JsonOk(JBool(FALSE), i + 5)
         [] Matches(s, i, <<110, 117, 108, 108>>) -> JsonOk(JNull, i + 4)
         [] OTHER -> JsonFail

ParseValue(s, i) == ParseValueAt(s, SkipWs(s, i))

\* the whole text must be one value: [ok, val]
JsonWhole(s, r) ==
  IF r.ok /\ SkipWs(s, r.next) > Len(s)
    THEN [ok |-> TRUE, val |-> r.val]
    ELSE [ok |-> FALSE, val |-> JUndef]

JsonParse(s) == JsonWhole(s, ParseValue(s, 1))

(***************************************************************************)
(* radash get(value, path): the path is split at ".", "[" and "]", quotes  *)
(* are dropped from each segment, blank segments are skipped, and the      *)
(* lookup stops with undefined at null or undefined.                       *)
(***************************************************************************)
RECURSIVE Dequote(_)
Dequote(k) ==
  IF k = <<>> THEN <<>>
  ELSE IF Head(k) \in {34, 39} THEN Dequote(Tail(k))
  ELSE <<Head(k)>> \o Dequote(Tail(k))

IsIndex(k) ==
  /\ k # <<>>
  /\ \A i \in 1 .. Len(k) : k[i] \in 48 .. 57
  /\ (Len(k) > 1 => k[1] # 48)

\* the element at index n of a sequence of length-one items, or undefined
ElementAt(items, n) == IF n < Len(items) THEN items[n + 1] ELSE JUndef

RECURSIVE CharsOf(_)
CharsOf(s) == IF s = <<>> THEN <<>> ELSE <<JStr(<<Head(s)>>)>> \o CharsOf(Tail(s))

\* "length"
KeyLength == <<108, 101, 110, 103, 116, 104>>

\* items[k] for an array or a string whose elements are items
Indexed(items, k) ==
  IF IsIndex(k) THEN ElementAt(items, ParseDigits(k, 1, 0).n)
  ELSE IF k = KeyLength THEN JNum(Len(items))
  ELSE JUndef

\* the names of the methods every plain object inherits from Object.prototype
ObjectPrototypeMethods ==
  {
    \* constructor
    <<99, 111, 110, 115, 116, 114, 117, 99, 116, 111, 114>>,
    \* toString
    <<116, 111, 83, 116, 114, 105, 110, 103>>,
    \* toLocaleString
    <<116, 111, 76, 111, 99, 97, 108, 101, 83, 116, 114, 105, 110, 103>>,
    \* valueOf
    <<118, 97, 108, 117, 101, 79, 102>>,
    \* hasOwnProperty
    <<104, 97, 115, 79, 119, 110, 80, 114, 111, 112, 101, 114, 116, 121>>,
    \* isPrototypeOf
    <<105, 115, 80, 114, 111, 116, 111, 116, 121, 112, 101, 79, 102>>,
    \* propertyIsEnumerable
    <<112, 114, 111, 112, 101, 114, 116, 121, 73, 115, 69, 110, 117, 109, 101, 114, 97, 98, 108, 101>>,
    \* __defineGetter__
    <<95, 95, 100, 101, 102, 105, 110, 101, 71, 101, 116, 116, 101, 114, 95, 95>>,
    \* __defineSetter__
    <<95, 95, 100, 101, 102, 105, 110, 101, 83, 101, 116, 116, 101, 114, 95, 95>>,
    \* __lookupGetter__
    <<95, 95, 108, 111, 111, 107, 117, 112, 71, 101, 116, 116, 101, 114, 95, 95>>,
    \* __lookupSetter__
    <<95, 95, 108, 111, 111, 107, 117, 112, 83, 101, 116, 116, 101, 114, 95, 95>>
  }

\* "__proto__", the accessor of Object.prototype
KeyProto == <<95, 95, 112, 114, 111, 116, 111, 95, 95>>

\* the value a plain object without an own property k gives for k: a method of
\* Object.prototype (constructor is the function Object), Object.prototype itself
\* for __proto__, undefined for any other name
Inherited(k) ==
  IF k \in ObjectPrototypeMethods
    THEN JFunc(IF k = <<99, 111, 110, 115, 116, 114, 117, 99, 116, 111, 114>> THEN <<79, 98, 106, 101, 99, 116>> ELSE k)
  ELSE IF k = KeyProto THEN JObj(<<>>)
  ELSE JUndef

\* current[key] for a key that is a string (of an array and of a string: the
\* elements and length)
Property(v, k) ==
  CASE v.t = "obj" -> IF k \in DOMAIN v.m THEN v.m[k] ELSE Inherited(k)
    [] v.t = "arr" -> Indexed(v.a, k)
    [] v.t = "str" -> Indexed(CharsOf(v.s), k)
    [] OTHER -> JUndef

RECURSIVE GetRun(_, _)
GetKey(current, dequoted, rest) ==
  IF Trim(dequoted) = <<>> THEN GetRun(current, rest)
  ELSE GetRun(Property(current, dequoted), rest)

GetRun(current, segments) ==
  IF segments = <<>> THEN current
  ELSE IF current.t \in {"null", "undef"} THEN JUndef
  ELSE GetKey(current, Dequote(Head(segments)), Tail(segments))

Get(value, path) == GetRun(value, Split(path, {46, 91, 93}))

(***************************************************************************)
(* Options.  An option bundle is a function from option names to values; a *)
(* name outside its domain is an option that is not set (undefined).       *)
(* contentPath is a text; chunkParser and validateChunk are the names of   *)
(* functions.                                                              *)
(***************************************************************************)
OptionKeys ==
  {"chunkParser", "chunkType", "contentPath", "autoConcat", "outputType", "validateChunk"}

Has(o, k) == k \in DOMAIN o

\* "content"
PathContent == <<99, 111, 110, 116, 101, 110, 116>>

\* "choices[0].delta.content"
PathOpenAi == <<99, 104, 111, 105, 99, 101, 115, 91, 48, 93, 46, 100, 101, 108, 116, 97, 46, 99, 111, 110, 116, 101, 110, 116>>

\* "answer"
PathAnswer == <<97, 110, 115, 119, 101, 114>>

defaultOptions ==
  [chunkType |-> "json", contentPath |-> PathContent, autoConcat |-> TRUE]

PRESETS ==
  [OpenAi |-> [chunkType |-> "json", contentPath |-> PathOpenAi,
               autoConcat |-> TRUE, outputType |-> "text"],
   DeepSeek |-> [chunkParser |-> "DeepSeek"],
   Dify |-> [chunkType |-> "json", contentPath |-> PathAnswer,
             autoConcat |-> TRUE, outputType |-> "text"],
   DifyApp |-> [chunkParser |-> "DifyApp"]]

PresetNames == DOMAIN PRESETS

\* {...a, ...b}: the keys of both, b's value where both set the key
Spread(a, b) ==
  [k \in (DOMAIN a) \cup (DOMAIN b) |-> IF k \in DOMAIN b THEN b[k] ELSE a[k]]

\* new Parser(options).options
Parser(opts) == Spread(defaultOptions, opts)

\* a faulty variant of PresetParser: the preset is spread first, so the caller's options win
PresetParserCallerWins(name, opts) == Parser(Spread(PRESETS[name], opts))

\* Parser.PRESETS[name](options).options
PresetParser(name, opts) == Parser(Spread(opts, PRESETS[name]))

\* the options of the parser built by `new Parser` (preset "none") or by a preset
Construct(preset, opts) ==
  IF preset = "none" THEN Parser(opts) ELSE PresetParser(preset, opts)

(***************************************************************************)
(* Chunk parsers.  A call gives [threw, result, context]: threw = TRUE is  *)
(* an exception thrown by the call, context the context object after it.   *)
(***************************************************************************)
Returned(v, ctx) == [threw |-> FALSE, result |-> v, context |-> ctx]

Threw(ctx) == [threw |-> TRUE, result |-> JUndef, context |-> ctx]

\* obj[k] = v; the setter of __proto__ ignores a value that is not an object
SetProperty(obj, k, v) ==
  IF k = KeyProto /\ v.t # "obj" THEN obj
  ELSE JObj([x \in (DOMAIN obj.m) \cup {k} |-> IF x = k THEN v ELSE obj.m[x]])

\* `return context`
ReturnContext(ctx) == Returned(ctx, ctx)

\* context[key] after `if (!context[key]) context[key] = ''`
DeepSeekEntry(old) == IF Truthy(old) THEN old ELSE JStr(<<>>)

\* `context[chunkType] += chunkType`, key being chunkType as a property name
DeepSeekAdd(context, key) ==
  ReturnContext(SetProperty(context, key,
                            JStr(JsToString(DeepSeekEntry(Property(context, key))) \o key)))

DeepSeekContent(chunkType, context) ==
  IF Truthy(chunkType)
    THEN DeepSeekAdd(context, JsToString(chunkType))
    ELSE ReturnContext(context)

\* a faulty variant of DeepSeekParsed: a payload that is not JSON is ignored and the
\* context returned
DeepSeekParsedTolerant(p, context) ==
  IF ~p.ok THEN ReturnContext(context)
  ELSE DeepSeekContent(Get(p.val, PathOpenAi), context)

DeepSeekParsed(p, context) ==
  IF ~p.ok THEN Threw(context) ELSE DeepSeekContent(Get(p.val, PathOpenAi), context)

\* PRESETS.DeepSeek.chunkParser
DeepSeekParser(chunk, context) == DeepSeekParsed(JsonParse(Trim(chunk)), context)

\* v === 'lit' for a string literal
IsStr(v, lit) == v.t = "str" /\ v.s = lit

\* a || b
OrElse(a, b) == IF Truthy(a) THEN a ELSE b

\* "event", "data", "node_type", "title", "outputs", "output", "current"
KeyEvent == <<101, 118, 101, 110, 116>>

KeyData == <<100, 97, 116, 97>>

KeyNodeType == <<110, 111, 100, 101, 95, 116, 121, 112, 101>>

KeyTitle == <<116, 105, 116, 108, 101>>

KeyOutputs == <<111, 117, 116, 112, 117, 116, 115>>

KeyOutput == <<111, 117, 116, 112, 117, 116>>

KeyCurrent == <<99, 117, 114, 114, 101, 110, 116>>

\* reading a property of null or undefined throws a TypeError
CanRead(v) == v.t \notin {"null", "undef"}

\* `return context.current`
ReturnCurrent(ctx) == Returned(Property(ctx, KeyCurrent), ctx)

\* a faulty variant of Adopt: `context.current = v`, without the fallback
AdoptAlways(context, v) == ReturnCurrent(SetProperty(context, KeyCurrent, v))

\* `context.current = v || context.current`
Adopt(context, v) ==
  ReturnCurrent(SetProperty(context, KeyCurrent, OrElse(v, Property(context, KeyCurrent))))

\* the branches on obj.event; obj.data.x throws when obj.data is null or undefined
DifyAppEvent(event, data, context) ==
  IF IsStr(event, <<110, 111, 100, 101, 95, 115, 116, 97, 114, 116, 101, 100>>)
       /\ (~CanRead(data) \/ ~IsStr(Property(data, KeyNodeType), <<115, 116, 97, 114, 116>>))
    THEN IF ~CanRead(data) THEN Threw(context)
         ELSE Adopt(context, Property(data, KeyTitle))
  ELSE IF IsStr(event, <<105, 116, 101, 114, 97, 116, 105, 111, 110, 95, 115, 116, 97, 114, 116, 101, 100>>)
          \/ IsStr(event, <<105, 116, 101, 114, 97, 116, 105, 111, 110, 95, 110, 101, 120, 116>>)
    THEN IF ~CanRead(data) THEN Threw(context)
         ELSE Adopt(context, Property(data, KeyTitle))
  ELSE IF IsStr(event, <<110, 111, 100, 101, 95, 102, 105, 110, 105, 115, 104, 101, 100>>)
    THEN IF ~CanRead(data) \/ ~CanRead(Property(data, KeyOutputs)) THEN Threw(context)
         ELSE Adopt(context, Property(Property(data, KeyOutputs), KeyOutput))
  ELSE ReturnCurrent(context)

DifyAppObject(obj, context) ==
  DifyAppEvent(Property(obj, KeyEvent), Property(obj, KeyData), context)

\* `JSON.parse(chunk.trim()) || {}`
DifyAppParsed(p, context) ==
  IF ~p.ok THEN Threw(context) ELSE DifyAppObject(OrElse(p.val, EmptyObj), context)

\* PRESETS.DifyApp.chunkParser
DifyAppParser(chunk, context) == DifyAppParsed(JsonParse(Trim(chunk)), context)

\* Caller-supplied chunk parsers the model is run with.
\*   "ErrorOnBang": returns an Error instance for a payload holding "!", and the
\*                  payload itself otherwise;
\*   "ThrowOnBang": throws for a payload holding "!", returns the payload otherwise;
\*   "Tally":       context.current = (context.current || '') + chunk;
\*                  return context.current.
HasBang(chunk) == \E i \in 1 .. Len(chunk) : chunk[i] = 33

TallyParser(chunk, context) ==
  ReturnCurrent(SetProperty(context, KeyCurrent,
                            JStr(JsToString(OrElse(Property(context, KeyCurrent), JStr(<<>>)))
                                 \o chunk)))

CallerParser(name, chunk, context) ==
  IF name = "Tally" THEN TallyParser(chunk, context)
  ELSE IF HasBang(chunk)
    THEN IF name = "ErrorOnBang" THEN Returned(JError(chunk), context) ELSE Threw(context)
    ELSE Returned(JStr(chunk), context)

\* this.options.chunkParser(data, context)
CallChunkParser(name, chunk, context) ==
  CASE name = "DeepSeek" -> DeepSeekParser(chunk, context)
    [] name = "DifyApp" -> DifyAppParser(chunk, context)
    [] OTHER -> CallerParser(name, chunk, context)

(***************************************************************************)
(* Parser.parse, one record at a time.                                     *)
(***************************************************************************)
\* "data:"
DataPrefix == <<100, 97, 116, 97, 58>>

\* "text", the field of the object emitted when outputType is not 'text'
KeyText == <<116, 101, 120, 116>>

\* value ? decoder.decode(value) : ''
ChunkText(hasValue, value) == IF hasValue THEN Decode(value) ELSE <<>>

\* text: unfinishedText + the text of the chunk
ReadText(unfinished, chunkText) == unfinished \o chunkText

\* a faulty variant of ReadRows: the last row is popped even when the source reported done
ReadRowsAlwaysPop(text, isDone) == Front(Split(text, {10}))

\* rows after `text.split('\n')` and, unless done, `rows.pop()`
ReadRows(text, isDone) ==
  IF isDone THEN Split(text, {10}) ELSE Front(Split(text, {10}))

\* unfinishedText after the read: `rows.pop() || ''` unless done
ReadUnfinished(text, isDone, unfinished) ==
  IF isDone THEN unfinished ELSE Last(Split(text, {10}))

\* a faulty variant of IsData: "data:" anywhere in the row
IsDataAnywhere(row) ==
  \E i \in 1 .. Len(row) : StartsWith(SubSeq(row, i, Len(row)), DataPrefix)

\* row.startsWith('data:')
IsData(row) == StartsWith(row, DataPrefix)

\* row.substring(5)
Payload(row) == Substring(row, 5)

\* v ?? ''
OrEmpty(v) == IF v.t \in {"null", "undef"} THEN JStr(<<>>) ELSE v

\* this.options.contentPath ?? ''
ContentPath(opts) == IF Has(opts, "contentPath") THEN opts.contentPath ELSE <<>>

\* a faulty variant of ExtractJson: chunkContent declared without its initial ''
ExtractJsonUndefined(opts, p) ==
  IF ~p.ok THEN JUndef ELSE OrEmpty(Get(p.val, ContentPath(opts)))

\* the try block: a SyntaxError leaves chunkContent = ''
ExtractJson(opts, p) ==
  IF ~p.ok THEN JStr(<<>>) ELSE OrEmpty(Get(p.val, ContentPath(opts)))

\* a faulty variant of ChunkContent: validateChunk is called first, and a chunk it
\* rejects gives no text
ChunkContentValidated(opts, data) ==
  IF Has(opts, "validateChunk") THEN JStr(<<>>)
  ELSE IF Has(opts, "chunkType") /\ opts.chunkType = "text" THEN JStr(data)
  ELSE ExtractJson(opts, JsonParse(Trim(data)))

\* chunkContent: the fragment the built-in extraction takes from a payload
ChunkContent(opts, data) ==
  IF Has(opts, "chunkType") /\ opts.chunkType = "text" THEN JStr(data)
  ELSE ExtractJson(opts, JsonParse(Trim(data)))

AutoConcat(opts) == Has(opts, "autoConcat") /\ opts.autoConcat

\* a faulty variant of Accumulate: the fragment is put before the output
AccumulatePrepended(opts, out, chunkContent) ==
  IF AutoConcat(opts) THEN JsToString(chunkContent) \o out ELSE out

\* output after the record: output + chunkContent when autoConcat
Accumulate(opts, out, chunkContent) ==
  IF AutoConcat(opts) THEN out \o JsToString(chunkContent) ELSE out

\* a faulty variant of OutputText: the accumulated output whatever autoConcat says
OutputTextAlwaysAccumulated(opts, out, chunkContent) ==
  JStr(Accumulate(opts, out, chunkContent))

\* outputText: the accumulated output, or the fragment alone
OutputText(opts, out, chunkContent) ==
  IF AutoConcat(opts) THEN JStr(Accumulate(opts, out, chunkContent)) ELSE chunkContent

\* the value yielded for outputText
Shape(opts, outputText) ==
  IF Has(opts, "outputType") /\ opts.outputType = "text"
    THEN outputText
    ELSE JObj([k \in {KeyText} |-> outputText])

(***************************************************************************)
(* The runs of the model: a parser configuration and the bytes of a source *)
(* stream, made of at most MaxLines lines of a pool joined by "\n".        *)
(***************************************************************************)
RECURSIVE Join(_)
Join(ls) ==
  IF ls = <<>> THEN <<>>
  ELSE Head(ls) \o (IF Len(ls) > 1 THEN <<10>> \o Join(Tail(ls)) ELSE <<>>)

\* the streams of at most n lines of a pool
StreamsOf(lines, n) == {Join(ls) : ls \in UNION {[1 .. k -> lines] : k \in 0 .. n}}

Streams(lines) == StreamsOf(lines, MaxLines)

TextLines ==
  {
    \* data:A
    <<100, 97, 116, 97, 58, 65>>,
    \* data:é!
    <<100, 97, 116, 97, 58, 195, 169, 33>>,
    \*  data:B
    <<32, 100, 97, 116, 97, 58, 66>>,
    \* (the empty line)
    <<>>,
    \* <U+FEFF>data:F
    <<239, 187, 191, 100, 97, 116, 97, 58, 70>>
  }

JsonLines ==
  {
    \* data:{"c":"A"}
    <<100, 97, 116, 97, 58, 123, 34, 99, 34, 58, 34, 65, 34, 125>>,
    \* data: {"c":"é"}
    <<100, 97, 116, 97, 58, 32, 123, 34, 99, 34, 58, 34, 195, 169, 34, 125>>,
    \* data:[DONE]
    <<100, 97, 116, 97, 58, 91, 68, 79, 78, 69, 93>>,
    \* data:{"d":7}
    <<100, 97, 116, 97, 58, 123, 34, 100, 34, 58, 55, 125>>,
    \* event:x
    <<101, 118, 101, 110, 116, 58, 120>>
  }

OpenAiLines ==
  {
    \* data:{"choices":[{"delta":{"content":"A"}}]}
    <<100, 97, 116, 97, 58, 123, 34, 99, 104, 111, 105, 99, 101, 115, 34, 58, 91, 123, 34, 100, 101, 108, 116, 97, 34, 58, 123, 34, 99, 111, 110, 116, 101, 110, 116, 34, 58, 34, 65, 34, 125, 125, 93, 125>>,
    \* data:{"choices":[{"delta":{"content":"B"}}]}
    <<100, 97, 116, 97, 58, 123, 34, 99, 104, 111, 105, 99, 101, 115, 34, 58, 91, 123, 34, 100, 101, 108, 116, 97, 34, 58, 123, 34, 99, 111, 110, 116, 101, 110, 116, 34, 58, 34, 66, 34, 125, 125, 93, 125>>,
    \* data: [DONE]
    <<100, 97, 116, 97, 58, 32, 91, 68, 79, 78, 69, 93>>
  }

DifyLines ==
  {
    \* data:{"answer":"A"}
    <<100, 97, 116, 97, 58, 123, 34, 97, 110, 115, 119, 101, 114, 34, 58, 34, 65, 34, 125>>,
    \* data:{"event":"ping"}
    <<100, 97, 116, 97, 58, 123, 34, 101, 118, 101, 110, 116, 34, 58, 34, 112, 105, 110, 103, 34, 125>>,
    \* data:{"answer":"B"}
    <<100, 97, 116, 97, 58, 123, 34, 97, 110, 115, 119, 101, 114, 34, 58, 34, 66, 34, 125>>
  }

DifyAppLines ==
  {
    \* data:{"event":"iteration_next","data":{"title":"T"}}
    <<100, 97, 116, 97, 58, 123, 34, 101, 118, 101, 110, 116, 34, 58, 34, 105, 116, 101, 114, 97, 116, 105, 111, 110, 95, 110, 101, 120, 116, 34, 44, 34, 100, 97, 116, 97, 34, 58, 123, 34, 116, 105, 116, 108, 101, 34, 58, 34, 84, 34, 125, 125>>,
    \* data:{"event":"iteration_next","data":{}}
    <<100, 97, 116, 97, 58, 123, 34, 101, 118, 101, 110, 116, 34, 58, 34, 105, 116, 101, 114, 97, 116, 105, 111, 110, 95, 110, 101, 120, 116, 34, 44, 34, 100, 97, 116, 97, 34, 58, 123, 125, 125>>,
    \* data:{"event":"ping"}
    <<100, 97, 116, 97, 58, 123, 34, 101, 118, 101, 110, 116, 34, 58, 34, 112, 105, 110, 103, 34, 125>>
  }

Config(p, o) == [preset |-> p, caller |-> o]

TextConfigs ==
  {Config("none", [chunkType |-> "text", outputType |-> "text"]),
   Config("none", [chunkType |-> "text", autoConcat |-> FALSE, outputType |-> "obj"]),
   Config("none", [chunkParser |-> "ErrorOnBang"]),
   Config("none", [chunkParser |-> "ThrowOnBang"])}

JsonConfigs ==
  {Config("none", [contentPath |-> <<99>>, outputType |-> "text"]),
   Config("none", [contentPath |-> <<99>>, autoConcat |-> FALSE, outputType |-> "text"]),
   Config("none", [contentPath |-> <<99>>])}

OpenAiConfigs ==
  {Config("OpenAi", [contentPath |-> <<120>>]), Config("DeepSeek", <<>>)}

DifyConfigs == {Config("Dify", [outputType |-> "obj"])}

DifyAppConfigs == {Config("DifyApp", [chunkType |-> "text"])}

Families ==
  {[configs |-> TextConfigs, lines |-> TextLines],
   [configs |-> JsonConfigs, lines |-> JsonLines],
   [configs |-> OpenAiConfigs, lines |-> OpenAiLines],
   [configs |-> DifyConfigs, lines |-> DifyLines],
   [configs |-> DifyAppConfigs, lines |-> DifyAppLines]}

Runs ==
  UNION {{[config |-> c, stream |-> s] : c \in f.configs, s \in Streams(f.lines)} :
           f \in Families}

\* the records of the runs of the DifyApp preset: events that adopt a title or an
\* output, the same events without one, and an event of another kind
AppLines ==
  {
    \* data:{"event":"node_started","data":{"title":"T"}}
    <<100, 97, 116, 97, 58, 123, 34, 101, 118, 101, 110, 116, 34, 58, 34, 110, 111, 100, 101, 95, 115, 116, 97, 114, 116, 101, 100, 34, 44, 34, 100, 97, 116, 97, 34, 58, 123, 34, 116, 105, 116, 108, 101, 34, 58, 34, 84, 34, 125, 125>>,
    \* data:{"event":"node_started","data":{}}
    <<100, 97, 116, 97, 58, 123, 34, 101, 118, 101, 110, 116, 34, 58, 34, 110, 111, 100, 101, 95, 115, 116, 97, 114, 116, 101, 100, 34, 44, 34, 100, 97, 116, 97, 34, 58, 123, 125, 125>>,
    \* data:{"event":"iteration_next","data":{}}
    <<100, 97, 116, 97, 58, 123, 34, 101, 118, 101, 110, 116, 34, 58, 34, 105, 116, 101, 114, 97, 116, 105, 111, 110, 95, 110, 101, 120, 116, 34, 44, 34, 100, 97, 116, 97, 34, 58, 123, 125, 125>>,
    \* data:{"event":"node_finished","data":{"outputs":{}}}
    <<100, 97, 116, 97, 58, 123, 34, 101, 118, 101, 110, 116, 34, 58, 34, 110, 111, 100, 101, 95, 102, 105, 110, 105, 115, 104, 101, 100, 34, 44, 34, 100, 97, 116, 97, 34, 58, 123, 34, 111, 117, 116, 112, 117, 116, 115, 34, 58, 123, 125, 125, 125>>,
    \* data:{"event":"ping"}
    <<100, 97, 116, 97, 58, 123, 34, 101, 118, 101, 110, 116, 34, 58, 34, 112, 105, 110, 103, 34, 125>>
  }

\* the records of the runs of the four presets: each pool has the end-of-stream
\* sentinel of the OpenAI protocol, which is not JSON.  "RejectAll" is a validateChunk
\* that returns an Error for every chunk.
SeekLines ==
  {
    \* data:{"choices":[{"delta":{"content":"A"}}]}
    <<100, 97, 116, 97, 58, 123, 34, 99, 104, 111, 105, 99, 101, 115, 34, 58, 91, 123, 34, 100, 101, 108, 116, 97, 34, 58, 123, 34, 99, 111, 110, 116, 101, 110, 116, 34, 58, 34, 65, 34, 125, 125, 93, 125>>,
    \* data:{"choices":[{"delta":{"content":"valueOf"}}]}
    <<100, 97, 116, 97, 58, 123, 34, 99, 104, 111, 105, 99, 101, 115, 34, 58, 91, 123, 34, 100, 101, 108, 116, 97, 34, 58, 123, 34, 99, 111, 110, 116, 101, 110, 116, 34, 58, 34, 118, 97, 108, 117, 101, 79, 102, 34, 125, 125, 93, 125>>,
    \* data:{"choices":[{"delta":{"reasoning_content":"R"}}]}
    <<100, 97, 116, 97, 58, 123, 34, 99, 104, 111, 105, 99, 101, 115, 34, 58, 91, 123, 34, 100, 101, 108, 116, 97, 34, 58, 123, 34, 114, 101, 97, 115, 111, 110, 105, 110, 103, 95, 99, 111, 110, 116, 101, 110, 116, 34, 58, 34, 82, 34, 125, 125, 93, 125>>,
    \* data: [DONE]
    <<100, 97, 116, 97, 58, 32, 91, 68, 79, 78, 69, 93>>
  }

PresetFamilies ==
  {[configs |-> {Config("DeepSeek", <<>>)}, lines |-> SeekLines],
   [configs |-> {Config("OpenAi", <<>>)},
    lines |->
      {
        \* data:{"choices":[{"delta":{"content":"A"}}]}
        <<100, 97, 116, 97, 58, 123, 34, 99, 104, 111, 105, 99, 101, 115, 34, 58, 91, 123, 34, 100, 101, 108, 116, 97, 34, 58, 123, 34, 99, 111, 110, 116, 101, 110, 116, 34, 58, 34, 65, 34, 125, 125, 93, 125>>,
        \* data: [DONE]
        <<100, 97, 116, 97, 58, 32, 91, 68, 79, 78, 69, 93>>
      }],
   [configs |-> {Config("Dify", <<>>), Config("Dify", [validateChunk |-> "RejectAll"])},
    lines |->
      {
        \* data:{"answer":"A"}
        <<100, 97, 116, 97, 58, 123, 34, 97, 110, 115, 119, 101, 114, 34, 58, 34, 65, 34, 125>>,
        \* data: [DONE]
        <<100, 97, 116, 97, 58, 32, 91, 68, 79, 78, 69, 93>>
      }],
   [configs |-> {Config("DifyApp", <<>>),
                 Config("DifyApp", [validateChunk |-> "RejectAll"])},
    lines |->
      {
        \* data:{"event":"node_started","data":{"title":"T"}}
        <<100, 97, 116, 97, 58, 123, 34, 101, 118, 101, 110, 116, 34, 58, 34, 110, 111, 100, 101, 95, 115, 116, 97, 114, 116, 101, 100, 34, 44, 34, 100, 97, 116, 97, 34, 58, 123, 34, 116, 105, 116, 108, 101, 34, 58, 34, 84, 34, 125, 125>>,
        \* data: [DONE]
        <<100, 97, 116, 97, 58, 32, 91, 68, 79, 78, 69, 93>>
      }]}

PresetRuns ==
  UNION {{[config |-> c, stream |-> s] :
            c \in f.configs, s \in StreamsOf(f.lines, MaxPresetLines)} :
           f \in PresetFamilies}

\* the runs of two parse calls on one parser, each call with its own reader
TwoLines ==
  {
    \* data:A
    <<100, 97, 116, 97, 58, 65>>,
    \* data:B
    <<100, 97, 116, 97, 58, 66>>
  }

TwoConfigs ==
  {Config("none", [chunkType |-> "text", outputType |-> "text"]),
   Config("none", [chunkParser |-> "Tally"])}

\* the option bundles a caller may pass, for the check of option resolution
OptionValues(k) ==
  CASE k = "chunkType" -> {"json", "text"}
    [] k = "contentPath" -> {<<120>>, PathAnswer}
    [] k = "autoConcat" -> {TRUE, FALSE}
    [] k = "outputType" -> {"text", "obj"}
    [] k = "chunkParser" -> {"ErrorOnBang"}
    [] OTHER -> {"RejectAll"}

RECURSIVE BundlesOver(_)
BundlesOver(ks) ==
  IF ks = {} THEN {<<>>}
  ELSE LET k == CHOOSE x \in ks : TRUE
       IN {Spread(b, [x \in {k} |-> v]) : b \in BundlesOver(ks \ {k}), v \in OptionValues(k)}

CallerBundles == UNION {BundlesOver(ks) : ks \in SUBSET OptionKeys}

(***************************************************************************)
(* State.                                                                  *)
(***************************************************************************)
VARIABLES
  preset,          \* how the parser was built: "none" (new Parser) or a preset name
  caller,          \* the option bundle the caller passed
  options,         \* this.options
  stream,          \* the bytes the source will deliver
  pos,             \* the number of bytes of stream delivered so far
  pc,              \* "new", "built", "read", "await", "loop", "yield", "done"
  done,            \* done of the last read
  unfinishedText,  \* unfinishedText
  output,          \* output
  context,         \* context
  rows,            \* rows[i..]: the rows of the last read not iterated yet
  emitted,         \* history: the values yielded, in order
  sources,         \* history: the row each yielded value was made from
  frags,           \* history: chunkContent of each yielded value (built-in extraction)
  records,         \* history: the rows the for loop has iterated, in order
  assembled,       \* history: the texts decoded from the chunks, concatenated
  ended,           \* "": running; "break": line 167; "return": line 132; "catch": line 171
  outstanding,     \* the number of reads issued to the source and not settled yet
  requested,       \* the number of values the consumer has asked for (calls of next)
  other            \* the state of a second parse call on the same parser, while the
                   \* first one runs (and the reverse); [pc |-> "idle"] if there is none

vars ==
  <<preset, caller, options, stream, pos, pc, done, unfinishedText, output, context,
    rows, emitted, sources, frags, records, assembled, ended, outstanding, requested,
    other>>

(***************************************************************************)
(* Initial states.  Init: parse(reader) has been called on a parser built  *)
(* for one of the runs.  InitNew: no parser has been built yet.            *)
(***************************************************************************)
\* no second parse call
Idle == [pc |-> "idle"]

\* the locals of a parse call that has not read anything yet
FreshFrame(i, s) ==
  [id |-> i, stream |-> s, pos |-> 0, pc |-> "read", done |-> FALSE,
   unfinishedText |-> <<>>, output |-> <<>>, context |-> EmptyObj, rows |-> <<>>,
   emitted |-> <<>>, sources |-> <<>>, frags |-> <<>>, records |-> <<>>,
   assembled |-> <<>>, ended |-> "", outstanding |-> 0, requested |-> 1]

Fresh ==
  /\ pos = 0
  /\ done = FALSE
  /\ unfinishedText = <<>>
  /\ output = <<>>
  /\ context = EmptyObj
  /\ rows = <<>>
  /\ emitted = <<>>
  /\ sources = <<>>
  /\ frags = <<>>
  /\ records = <<>>
  /\ assembled = <<>>
  /\ ended = ""
  /\ outstanding = 0
  /\ requested = 1

Init ==
  /\ \E r \in Runs :
       /\ preset = r.config.preset
       /\ caller = r.config.caller
       /\ options = Construct(r.config.preset, r.config.caller)
       /\ stream = r.stream
  /\ pc = "read"
  /\ Fresh
  /\ other = Idle

InitNew ==
  /\ preset = "none"
  /\ caller = <<>>
  /\ options = <<>>
  /\ stream = <<>>
  /\ pc = "new"
  /\ Fresh
  /\ other = Idle

\* parse(reader) has been called on a parser built by the DifyApp preset
InitApp ==
  /\ \E s \in StreamsOf(AppLines, MaxAppLines) :
       /\ preset = "DifyApp"
       /\ caller = <<>>
       /\ options = Construct("DifyApp", <<>>)
       /\ stream = s
  /\ pc = "read"
  /\ Fresh
  /\ other = Idle

\* parse(reader) has been called on a parser built by one of the four presets
InitPresets ==
  /\ \E r \in PresetRuns :
       /\ preset = r.config.preset
       /\ caller = r.config.caller
       /\ options = Construct(r.config.preset, r.config.caller)
       /\ stream = r.stream
  /\ pc = "read"
  /\ Fresh
  /\ other = Idle

\* parse(reader) has been called on a parser with the built-in extraction or with a
\* chunkParser of the caller, on a stream of short records
InitLive ==
  /\ \E c \in TwoConfigs \cup {Config("none", [chunkParser |-> "ErrorOnBang"])},
        \* data:!
        s \in StreamsOf(TwoLines \cup {<<100, 97, 116, 97, 58, 33>>}, MaxLiveLines) :
       /\ preset = c.preset
       /\ caller = c.caller
       /\ options = Construct(c.preset, c.caller)
       /\ stream = s
  /\ pc = "read"
  /\ Fresh
  /\ other = Idle

\* two calls of parse on one parser, none of which has read anything yet
InitTwo ==
  /\ \E c \in TwoConfigs, s1 \in StreamsOf(TwoLines, MaxTwoLines),
        s2 \in StreamsOf(TwoLines, MaxTwoLines) :
       /\ preset = c.preset
       /\ caller = c.caller
       /\ options = Construct(c.preset, c.caller)
       /\ stream = s1
       /\ other = FreshFrame(2, s2)
  /\ pc = "read"
  /\ Fresh

(***************************************************************************)
(* Construction.                                                           *)
(***************************************************************************)
\* new Parser(o)
New ==
  /\ pc = "new"
  /\ \E o \in CallerBundles :
       /\ caller' = o
       /\ preset' = "none"
       /\ options' = Parser(o)
  /\ pc' = "built"
  /\ UNCHANGED <<stream, pos, done, unfinishedText, output, context, rows, emitted,
                 sources, frags, records, assembled, ended, outstanding, requested,
                 other>>

\* Parser.PRESETS[p](o)
NewPreset ==
  /\ pc = "new"
  /\ \E p \in PresetNames, o \in CallerBundles :
       /\ caller' = o
       /\ preset' = p
       /\ options' = PresetParser(p, o)
  /\ pc' = "built"
  /\ UNCHANGED <<stream, pos, done, unfinishedText, output, context, rows, emitted,
                 sources, frags, records, assembled, ended, outstanding, requested,
                 other>>

(***************************************************************************)
(* parse(reader).                                                          *)
(***************************************************************************)
\* line 111: reader.read() is called and parse waits for its promise
IssueRead ==
  /\ pc = "read"
  /\ pc' = "await"
  /\ outstanding' = outstanding + 1
  /\ UNCHANGED <<preset, caller, options, stream, pos, done, unfinishedText, output,
                 context, rows, emitted, sources, frags, records, assembled, ended,
                 requested, other>>

\* lines 113-117: the text is split into rows, the last one kept back unless done
ReadSplit(d, chunkText, text) ==
  /\ rows' = ReadRows(text, d)
  /\ unfinishedText' = ReadUnfinished(text, d, unfinishedText)
  /\ assembled' = assembled \o chunkText
  /\ done' = d

ReadResolve(d, chunkText) ==
  \E text \in {ReadText(unfinishedText, chunkText)} : ReadSplit(d, chunkText, text)

\* reader.read() resolves with {done: d, value}: the next n bytes of the stream, or
\* no value; the source reports done only when it has nothing left to deliver.
Read ==
  /\ pc = "await"
  /\ \E n \in 0 .. (Len(stream) - pos), d \in BOOLEAN, hasValue \in BOOLEAN :
       /\ d => pos + n = Len(stream)
       /\ ~hasValue => (d /\ n = 0)
       /\ \E chunkText \in {ChunkText(hasValue, SubSeq(stream, pos + 1, pos + n))} :
            ReadResolve(d, chunkText)
       /\ pos' = pos + n
  /\ pc' = "loop"
  /\ outstanding' = outstanding - 1
  /\ UNCHANGED <<preset, caller, options, stream, output, context, emitted, sources,
                 frags, records, ended, requested, other>>

\* reader.read() rejects: the exception is caught and logged, parse returns
ReadFail ==
  /\ pc = "await"
  /\ pc' = "done"
  /\ ended' = "catch"
  /\ outstanding' = outstanding - 1
  /\ UNCHANGED <<preset, caller, options, stream, pos, done, unfinishedText, output,
                 context, rows, emitted, sources, frags, records, assembled, requested,
                 other>>

\* a row that does not start with "data:" is skipped
SkipRow ==
  /\ pc = "loop"
  /\ rows # <<>>
  /\ ~IsData(Head(rows))
  /\ rows' = Tail(rows)
  /\ records' = Append(records, Head(rows))
  /\ UNCHANGED <<preset, caller, options, stream, pos, pc, done, unfinishedText, output,
                 context, emitted, sources, frags, assembled, ended, outstanding,
                 requested, other>>

\* a faulty variant of CustomResult: the catch block yields the exception as an Error
CustomResultYieldingThrown(row, r) ==
  /\ context' = r.context
  /\ emitted' = Append(emitted, IF r.threw THEN JError(Payload(row)) ELSE r.result)
  /\ sources' = Append(sources, row)
  /\ IF r.threw
       THEN pc' = "done" /\ ended' = "catch"
       ELSE pc' = "yield" /\ UNCHANGED ended

\* lines 129-133 and 170-172, r being the outcome of the chunkParser call
CustomResult(row, r) ==
  /\ context' = r.context
  /\ IF r.threw
       THEN /\ pc' = "done"
            /\ ended' = "catch"
            /\ UNCHANGED <<emitted, sources>>
       ELSE /\ pc' = "yield"
            /\ emitted' = Append(emitted, r.result)
            /\ sources' = Append(sources, row)
            /\ UNCHANGED ended

\* a data row with a chunkParser: its result is yielded; an exception it throws is
\* caught and logged, and parse returns
CustomRow ==
  /\ pc = "loop"
  /\ rows # <<>>
  /\ IsData(Head(rows))
  /\ Has(options, "chunkParser")
  /\ records' = Append(records, Head(rows))
  /\ rows' = Tail(rows)
  /\ \E data \in {Payload(Head(rows))} :
       \E r \in {CallChunkParser(options.chunkParser, data, context)} :
         CustomResult(Head(rows), r)
  /\ UNCHANGED <<preset, caller, options, stream, pos, done, unfinishedText, output,
                 frags, assembled, outstanding, requested, other>>

\* lines 148-163, chunkContent being the fragment taken from the row
BuiltinResult(chunkContent) ==
  /\ output' = Accumulate(options, output, chunkContent)
  /\ emitted' = Append(emitted, Shape(options, OutputText(options, output, chunkContent)))
  /\ frags' = Append(frags, chunkContent)

\* a data row with the built-in extraction: the fragment is taken, accumulated and
\* the shaped text is yielded
BuiltinRow ==
  /\ pc = "loop"
  /\ rows # <<>>
  /\ IsData(Head(rows))
  /\ ~Has(options, "chunkParser")
  /\ records' = Append(records, Head(rows))
  /\ rows' = Tail(rows)
  /\ \E data \in {Payload(Head(rows))} :
       \E chunkContent \in {ChunkContent(options, data)} : BuiltinResult(chunkContent)
  /\ sources' = Append(sources, Head(rows))
  /\ pc' = "yield"
  /\ UNCHANGED <<preset, caller, options, stream, pos, done, unfinishedText, context,
                 assembled, ended, outstanding, requested, other>>

\* a faulty variant of Resume: the `return` after an Error result is missing
ResumeIgnoringError ==
  /\ pc = "yield"
  /\ pc' = "loop"
  /\ requested' = requested + 1
  /\ UNCHANGED <<preset, caller, options, stream, pos, done, unfinishedText, output,
                 context, rows, emitted, sources, frags, records, assembled, ended,
                 outstanding, other>>

\* the consumer takes the value and asks for the next one: parse goes on after the
\* yield, and returns if the value it yielded was an Error made by the chunkParser
Resume ==
  /\ pc = "yield"
  /\ IF Has(options, "chunkParser") /\ Last(emitted).t = "error"
       THEN pc' = "done" /\ ended' = "return"
       ELSE pc' = "loop" /\ UNCHANGED ended
  /\ requested' = requested + 1
  /\ UNCHANGED <<preset, caller, options, stream, pos, done, unfinishedText, output,
                 context, rows, emitted, sources, frags, records, assembled, outstanding,
                 other>>

\* a faulty variant of LoopExit: the test of done is missing, parse reads again
LoopExitIgnoringDone ==
  /\ pc = "loop"
  /\ rows = <<>>
  /\ pc' = "read"
  /\ UNCHANGED <<preset, caller, options, stream, pos, done, unfinishedText, output,
                 context, rows, emitted, sources, frags, records, assembled, ended,
                 outstanding, requested, other>>

\* the end of the for loop: break if done, else the next read
LoopExit ==
  /\ pc = "loop"
  /\ rows = <<>>
  /\ IF done
       THEN pc' = "done" /\ ended' = "break"
       ELSE pc' = "read" /\ UNCHANGED ended
  /\ UNCHANGED <<preset, caller, options, stream, pos, done, unfinishedText, output,
                 context, rows, emitted, sources, frags, records, assembled, outstanding,
                 requested, other>>

\* the locals of the running parse call, as they are kept while the other call runs
Frame ==
  [id |-> 3 - other.id, stream |-> stream, pos |-> pos, pc |-> pc, done |-> done,
   unfinishedText |-> unfinishedText, output |-> output, context |-> context,
   rows |-> rows, emitted |-> emitted, sources |-> sources, frags |-> frags,
   records |-> records, assembled |-> assembled, ended |-> ended,
   outstanding |-> outstanding, requested |-> requested]

\* the running call is suspended (at the await, at a yield, before its first step) or
\* has returned, and the other call runs with its own locals
SwitchTo(f) ==
  /\ stream' = f.stream
  /\ pos' = f.pos
  /\ pc' = f.pc
  /\ done' = f.done
  /\ unfinishedText' = f.unfinishedText
  /\ output' = f.output
  /\ context' = f.context
  /\ rows' = f.rows
  /\ emitted' = f.emitted
  /\ sources' = f.sources
  /\ frags' = f.frags
  /\ records' = f.records
  /\ assembled' = f.assembled
  /\ ended' = f.ended
  /\ outstanding' = f.outstanding
  /\ requested' = f.requested

Suspended ==
  \/ pc \in {"await", "yield", "done"}
  \/ pc = "read" /\ pos = 0 /\ records = <<>> /\ assembled = <<>>

\* a faulty variant of Switch: output, context and unfinishedText are fields of the
\* parser, so the call that runs next finds them as the other call left them
SwitchSharingState ==
  /\ other.pc # "idle"
  /\ Suspended
  /\ other' = Frame
  /\ SwitchTo([other EXCEPT !.output = output, !.context = context,
                            !.unfinishedText = unfinishedText])
  /\ UNCHANGED <<preset, caller, options>>

Switch ==
  /\ other.pc # "idle"
  /\ Suspended
  /\ other' = Frame
  /\ SwitchTo(other)
  /\ UNCHANGED <<preset, caller, options>>

Next ==
  \/ IssueRead
  \/ Read
  \/ ReadFail
  \/ SkipRow
  \/ CustomRow
  \/ BuiltinRow
  \/ Resume
  \/ LoopExit

Spec == Init /\ [][Next]_vars

\* the steps of parse on a parser that has a chunkParser
NextCustom ==
  \/ IssueRead
  \/ Read
  \/ ReadFail
  \/ SkipRow
  \/ CustomRow
  \/ Resume
  \/ LoopExit

SpecApp == InitApp /\ [][NextCustom]_vars

\* parse with a source that settles every read and in the end reports done, and a
\* consumer that asks for the next value after each one
SpecLive ==
  /\ InitLive
  /\ [][Next]_vars
  /\ WF_vars(IssueRead)
  /\ WF_vars(Read \/ ReadFail)
  /\ SF_vars(Read /\ done')
  /\ WF_vars(SkipRow \/ CustomRow \/ BuiltinRow \/ LoopExit)
  /\ WF_vars(Resume)

SpecPresets == InitPresets /\ [][Next]_vars

NextTwo ==
  \/ Next
  \/ Switch

SpecTwo == InitTwo /\ [][NextTwo]_vars

NextNew ==
  \/ New
  \/ NewPreset

SpecNew == InitNew /\ [][NextNew]_vars

(***************************************************************************)
(* Helpers of the properties.                                              *)
(***************************************************************************)
\* the row begins with the five characters d, a, t, a, :
HasDataPrefix(r) ==
  /\ Len(r) >= 5
  /\ r[1] = 100 /\ r[2] = 97 /\ r[3] = 116 /\ r[4] = 97 /\ r[5] = 58

\* what follows the first five characters of a row
AfterPrefix(r) == [i \in 1 .. (Len(r) - 5) |-> r[i + 5]]

CountData(rs) == Cardinality({i \in 1 .. Len(rs) : HasDataPrefix(rs[i])})

LineFeeds(t) == {i \in 1 .. Len(t) : t[i] = 10}

\* the text after the last "\n" of t (t itself if it has none)
LastPiece(t) ==
  LET from == IF LineFeeds(t) = {} THEN 0
              ELSE CHOOSE i \in LineFeeds(t) : \A j \in LineFeeds(t) : j <= i
  IN [i \in 1 .. (Len(t) - from) |-> t[from + i]]

IsPrefix(a, b) == Len(a) <= Len(b) /\ SubSeq(b, 1, Len(a)) = a

\* the text of an emitted value: the value, or its `text` field
TextOf(v) == IF v.t = "obj" /\ KeyText \in DOMAIN v.m THEN v.m[KeyText] ELSE v

\* f1 + ... + fn, as the + of a string with each fragment
RECURSIVE ConcatFrags(_)
ConcatFrags(fs) ==
  IF fs = <<>> THEN <<>> ELSE ConcatFrags(Front(fs)) \o JsToString(Last(fs))

Builtin == ~Has(options, "chunkParser")

TextMode == Has(options, "chunkType") /\ options.chunkType = "text"

\* the payload of the row is not valid JSON
Malformed(r) == ~JsonParse(Trim(AfterPrefix(r))).ok

\* the records parse processes when the whole stream is delivered in one read that
\* is not the last, followed by a read that reports done with no value
SingleReadRecords(bytes) ==
  LET text1 == ReadText(<<>>, ChunkText(TRUE, bytes))
      text2 == ReadText(ReadUnfinished(text1, FALSE, <<>>), ChunkText(FALSE, <<>>))
  IN ReadRows(text1, FALSE) \o ReadRows(text2, TRUE)

(***************************************************************************)
(* Properties.                                                             *)
(***************************************************************************)
\* C1: however the stream is cut into reads, the records parse processes are those
\* it processes when the whole stream comes in a single read followed by
\* end-of-stream: all of them when parse ends at end-of-stream, a prefix of them
\* when it ends early.
LineReassemblyIndependentOfChunking ==
  /\ IsPrefix(records, SingleReadRecords(stream))
  /\ ended = "break" => records = SingleReadRecords(stream)

\* C2: with autoConcat and no chunkParser, the text of the k-th emitted value is
\* f1 + ... + fk, and output is the concatenation of all fragments so far.
AccumulationCorrect ==
  (Builtin /\ AutoConcat(options)) =>
    /\ Len(emitted) = Len(frags)
    /\ output = ConcatFrags(frags)
    /\ \A k \in 1 .. Len(emitted) :
         TextOf(emitted[k]) = JStr(ConcatFrags(SubSeq(frags, 1, k)))

AccumulationWitness ==
  /\ Builtin /\ AutoConcat(options)
  /\ Len(emitted) >= 2
  /\ frags[1] # JStr(<<>>)
  /\ frags[2] # JStr(<<>>)
  /\ frags[1] # frags[2]

\* C3: with autoConcat = false and no chunkParser, the text of the k-th emitted
\* value is the k-th fragment alone (in text mode: the payload of its row).
NonAccumulation ==
  (Builtin /\ ~AutoConcat(options)) =>
    /\ Len(emitted) = Len(frags)
    /\ \A k \in 1 .. Len(emitted) :
         /\ TextOf(emitted[k]) = frags[k]
         /\ TextMode => TextOf(emitted[k]) = JStr(AfterPrefix(sources[k]))

NonAccumulationWitness ==
  /\ Builtin /\ ~AutoConcat(options)
  /\ Len(emitted) >= 2
  /\ frags[1] # JStr(<<>>)
  /\ frags[2] # JStr(<<>>)
  /\ TextOf(emitted[2]) = frags[2]

\* C4: every emitted value was made from a row that begins with "data:", and there
\* are no more emitted values than rows with that prefix among the rows processed.
OnlyDataRecordsEmit ==
  /\ Len(sources) = Len(emitted)
  /\ \A k \in 1 .. Len(sources) : HasDataPrefix(sources[k])
  /\ Len(emitted) <= CountData(records)

\* a row without the prefix was the trailing record at end-of-stream, after an emission
OnlyDataRecordsWitness ==
  /\ ended = "break"
  /\ emitted # <<>>
  /\ records # <<>>
  /\ Last(records) # <<>>
  /\ ~HasDataPrefix(Last(records))

\* C5: a parser built by `new Parser` from options that set neither outputType nor
\* chunkParser emits each result text as a string.
DefaultOutputTypeIsText ==
  (preset = "none" /\ ~Has(caller, "outputType") /\ ~Has(caller, "chunkParser")) =>
    \A k \in 1 .. Len(emitted) : emitted[k].t = "str"

\* C6: once a chunkParser has returned an Error, that Error is the last emitted
\* value and the only one made from its row, the row is the last one processed,
\* and nothing is read, processed or emitted afterwards.
ErrorYielded ==
  /\ Has(options, "chunkParser")
  /\ emitted # <<>>
  /\ Last(emitted).t = "error"

CustomErrorTerminates ==
  /\ [](ErrorYielded =>
          /\ pc \in {"yield", "done"}
          /\ Last(emitted) = JError(AfterPrefix(Last(sources)))
          /\ Last(sources) = Last(records)
          /\ \A k \in 1 .. (Len(emitted) - 1) : emitted[k].t # "error")
  /\ [][ErrorYielded =>
          /\ emitted' = emitted
          /\ records' = records
          /\ rows' = rows
          /\ pos' = pos
          /\ pc' = "done"
          /\ ended' = "return"]_vars

\* an Error ended parse with a data row of the same buffer left unprocessed
CustomErrorWitness ==
  /\ ErrorYielded
  /\ ended = "return"
  /\ rows # <<>>
  /\ HasDataPrefix(Head(rows))

\* C7: with chunkType json and no chunkParser, a data row whose payload is not
\* valid JSON gives the fragment "", leaves the accumulated text as it was, and
\* does not end parse: every data row processed has its emission, and parse never
\* ends with rows of a buffer left.
JsonBuiltin == Builtin /\ ~TextMode

MalformedJsonTolerated ==
  JsonBuiltin =>
    /\ \A k \in 1 .. Len(sources) :
         Malformed(sources[k]) =>
           /\ frags[k] = JStr(<<>>)
           /\ TextOf(emitted[k]) =
                IF AutoConcat(options) /\ k > 1 THEN TextOf(emitted[k - 1]) ELSE JStr(<<>>)
    /\ Len(emitted) = CountData(records)
    /\ ended # "return"
    /\ pc = "done" => rows = <<>>

\* a malformed row was followed by a row that added text
MalformedJsonWitness ==
  /\ JsonBuiltin /\ AutoConcat(options)
  /\ Len(emitted) >= 2
  /\ Malformed(sources[1])
  /\ frags[2] # JStr(<<>>)
  /\ TextOf(emitted[2]) = frags[2]

\* C8: the rows of the reads so far (processed or waiting in the loop) are the
\* pieces of the decoded text that end with "\n", plus, once the source has
\* reported done, the piece after the last "\n"; before that, this piece is held
\* in unfinishedText.  When parse ends at end-of-stream that piece was the last
\* record processed.
TrailingRecordAtEndOfStream ==
  /\ Len(records) + Len(rows) = Cardinality(LineFeeds(assembled)) + (IF done THEN 1 ELSE 0)
  /\ ~done => unfinishedText = LastPiece(assembled)
  /\ done => Last(records \o rows) = LastPiece(assembled)
  /\ ended = "break" => (rows = <<>> /\ Last(records) = LastPiece(assembled))

\* a trailing data record without "\n" was emitted at end-of-stream
TrailingRecordWitness ==
  /\ ended = "break"
  /\ assembled # <<>>
  /\ Last(assembled) # 10
  /\ LineFeeds(assembled) # {}
  /\ HasDataPrefix(LastPiece(assembled))
  /\ sources # <<>>
  /\ Last(sources) = LastPiece(assembled)

\* C9: in the options of a parser built by a preset, a key the preset defines has
\* the preset's value, another key the caller set has the caller's value, another
\* key with a default has the default, and no other key is set.  (For `new Parser`
\* the same holds with no preset key.)
PresetKeys == IF preset = "none" THEN {} ELSE DOMAIN PRESETS[preset]

OptionPrecedence ==
  pc # "new" =>
    \A k \in OptionKeys :
      IF k \in PresetKeys THEN Has(options, k) /\ options[k] = PRESETS[preset][k]
      ELSE IF Has(caller, k) THEN Has(options, k) /\ options[k] = caller[k]
      ELSE IF Has(defaultOptions, k) THEN Has(options, k) /\ options[k] = defaultOptions[k]
      ELSE ~Has(options, k)

\* OpenAi({contentPath: 'x', ...}) resolved contentPath to the preset's path
OptionPrecedenceWitness ==
  /\ pc = "built"
  /\ preset = "OpenAi"
  /\ Has(caller, "contentPath")
  /\ caller.contentPath = <<120>>
  /\ options.contentPath = PathOpenAi
  /\ Has(caller, "validateChunk")
  /\ Has(options, "validateChunk")

\* C10: when parse ends at end-of-stream, the text it assembled from the chunks is
\* the UTF-8 decoding of all the bytes of the stream, however the bytes of a
\* character were divided between reads.
SplitCharactersDecoded ==
  ended = "break" => assembled = Decode(stream)

\* C11: an exception inside the loop (a read that fails, a chunkParser that throws)
\* ends parse as a normal completion: the step that catches it emits nothing, no
\* emitted value is an Error, no read is outstanding or issued afterwards, and the
\* values emitted before stay as they were.
ExceptionEndsSilently ==
  /\ [](ended = "catch" =>
          /\ pc = "done"
          /\ outstanding = 0
          /\ \A k \in 1 .. Len(emitted) : emitted[k].t # "error")
  /\ [][(ended' = "catch" \/ ended = "catch") =>
          /\ emitted' = emitted
          /\ pos' = pos
          /\ outstanding' <= outstanding]_vars

\* a chunkParser threw after a value had been emitted
ExceptionWitness ==
  /\ ended = "catch"
  /\ Has(options, "chunkParser")
  /\ emitted # <<>>
  /\ records # <<>>
  /\ \E i \in 1 .. Len(Last(records)) : Last(records)[i] = 33

\* the run of parse alone over the rows recs: [output, context, emitted, stopped]
StepAlone(opts, st, row) ==
  IF st.stopped \/ ~HasDataPrefix(row) THEN st
  ELSE IF Has(opts, "chunkParser")
    THEN LET r == CallChunkParser(opts.chunkParser, AfterPrefix(row), st.context)
         IN IF r.threw THEN [st EXCEPT !.context = r.context, !.stopped = TRUE]
            ELSE [st EXCEPT !.context = r.context,
                            !.emitted = Append(@, r.result),
                            !.stopped = (r.result.t = "error")]
  ELSE LET c == ChunkContent(opts, AfterPrefix(row))
       IN [st EXCEPT !.output = Accumulate(opts, @, c),
                     !.emitted = Append(@, Shape(opts, OutputText(opts, st.output, c)))]

RECURSIVE RunAlone(_, _)
RunAlone(opts, recs) ==
  IF recs = <<>>
    THEN [output |-> <<>>, context |-> EmptyObj, emitted |-> <<>>, stopped |-> FALSE]
    ELSE StepAlone(opts, RunAlone(opts, Front(recs)), Last(recs))

\* the rows a call has iterated are the first lines of the bytes its own reader has
\* delivered, and its emitted values are those of a run alone over these rows
EmitsAsAlone(f) ==
  /\ f.assembled = SubSeq(f.stream, 1, f.pos)
  /\ IsPrefix(f.records, Split(f.assembled, {10}))
  /\ f.emitted = RunAlone(options, f.records).emitted

\* C12: of two parse calls on one parser whose steps interleave, each emits what it
\* emits when it runs alone on its own source.
TwoCallsIndependent == EmitsAsAlone(Frame) /\ EmitsAsAlone(other)

\* one call is at a yield while the other, on another stream, has read a part of
\* its stream and waits for the next read
TwoCallsWitness ==
  /\ pc = "yield"
  /\ emitted # <<>>
  /\ other.pc = "await"
  /\ other.pos > 0
  /\ other.pos < Len(other.stream)
  /\ other.stream # stream

\* the object of a row that a chunkParser of a preset has parsed
ParsedRow(r) == JsonParse(Trim(AfterPrefix(r))).val

EventIs(obj, name) ==
  /\ Property(obj, KeyEvent).t = "str"
  /\ Property(obj, KeyEvent).s = name

\* "node_started", "start", "iteration_started", "iteration_next", "node_finished"
NodeStarted == <<110, 111, 100, 101, 95, 115, 116, 97, 114, 116, 101, 100>>

NodeTypeStart == <<115, 116, 97, 114, 116>>

IterationStarted == <<105, 116, 101, 114, 97, 116, 105, 111, 110, 95, 115, 116, 97, 114, 116, 101, 100>>

IterationNext == <<105, 116, 101, 114, 97, 116, 105, 111, 110, 95, 110, 101, 120, 116>>

NodeFinished == <<110, 111, 100, 101, 95, 102, 105, 110, 105, 115, 104, 101, 100>>

\* the candidate value of a record; undefined for a record of another event
Candidate(obj) ==
  LET data == Property(obj, KeyData)
      nodeType == Property(data, KeyNodeType)
  IN IF EventIs(obj, NodeStarted) /\ ~(nodeType.t = "str" /\ nodeType.s = NodeTypeStart)
       THEN Property(data, KeyTitle)
     ELSE IF EventIs(obj, IterationStarted) \/ EventIs(obj, IterationNext)
       THEN Property(data, KeyTitle)
     ELSE IF EventIs(obj, NodeFinished)
       THEN Property(Property(data, KeyOutputs), KeyOutput)
     ELSE JUndef

\* the value emitted before the k-th one; undefined, as context.current is, before
\* the first
EmittedBefore(k) == IF k = 1 THEN JUndef ELSE emitted[k - 1]

\* C13: with the DifyApp preset, a record whose candidate value is falsy, or whose
\* event has no candidate, emits the value emitted for the record before it (the
\* value context.current had), and a record with a truthy candidate emits the
\* candidate; context.current is the last value emitted.
DifyAppFallback ==
  preset = "DifyApp" =>
    /\ \A k \in 1 .. Len(emitted) :
         emitted[k] = IF Truthy(Candidate(ParsedRow(sources[k])))
                        THEN Candidate(ParsedRow(sources[k]))
                        ELSE EmittedBefore(k)
    /\ emitted # <<>> => Property(context, KeyCurrent) = Last(emitted)

\* a title was adopted, and the next record, with a falsy candidate or none, emitted
\* the title again
DifyAppFallbackWitness ==
  /\ preset = "DifyApp"
  /\ Len(emitted) >= 2
  /\ emitted[1].t = "str"
  /\ ~Truthy(Candidate(ParsedRow(sources[2])))
  /\ emitted[2] = emitted[1]
  /\ EventIs(ParsedRow(sources[2]), NodeFinished)

\* the content of a record of the OpenAI protocol: choices[0].delta.content
ContentOf(r) == Get(ParsedRow(r), PathOpenAi)

HasContent(r) == ContentOf(r).t = "str" /\ ContentOf(r).s # <<>>

RECURSIVE Repeated(_, _)
Repeated(c, n) == IF n = 0 THEN <<>> ELSE c \o Repeated(c, n - 1)

\* the mapping from each content c of the first k emitting records to c repeated
\* once per record that carried it
ContentTally(k) ==
  LET carrying(c) == {i \in 1 .. k : HasContent(sources[i]) /\ ContentOf(sources[i]).s = c}
      seen == {ContentOf(sources[i]).s : i \in {j \in 1 .. k : HasContent(sources[j])}}
  IN JObj([c \in seen |-> JStr(Repeated(c, Cardinality(carrying(c))))])

\* C14: with the DeepSeek preset, the value emitted for the k-th record is the
\* context, and the context maps each non-empty content string c of the records so
\* far to c repeated once per record that carried it (so a record without content
\* leaves it unchanged).
DeepSeekContextTally ==
  preset = "DeepSeek" =>
    /\ \A k \in 1 .. Len(emitted) : emitted[k] = ContentTally(k)
    /\ context = ContentTally(Len(emitted))

\* "choices[0].delta.reasoning_content", where the DeepSeek API sends the reasoning
PathReasoning == <<99, 104, 111, 105, 99, 101, 115, 91, 48, 93, 46, 100, 101, 108, 116, 97, 46, 114, 101, 97, 115, 111, 110, 105, 110, 103, 95, 99, 111, 110, 116, 101, 110, 116>>

ReasoningOf(r) == Get(ParsedRow(r), PathReasoning)

\* the texts at path p of the first k emitting records, concatenated
RECURSIVE Gathered(_, _)
Gathered(p, k) ==
  IF k = 0 THEN <<>>
  ELSE Gathered(p, k - 1)
         \o (IF Get(ParsedRow(sources[k]), p).t = "str"
               THEN Get(ParsedRow(sources[k]), p).s ELSE <<>>)

FieldValues(v) == {v.m[f] : f \in DOMAIN v.m}

\* C15: the value the DeepSeek preset emits has at most two fields; once reasoning
\* has been received one field holds the reasoning fragments so far, concatenated,
\* and once answer content has been received one field holds the answer fragments
\* so far, concatenated.
DeepSeekTwoFields ==
  preset = "DeepSeek" =>
    \A k \in 1 .. Len(emitted) :
      /\ emitted[k].t = "obj"
      /\ Cardinality(DOMAIN emitted[k].m) <= 2
      /\ Gathered(PathReasoning, k) # <<>> =>
           JStr(Gathered(PathReasoning, k)) \in FieldValues(emitted[k])
      /\ Gathered(PathOpenAi, k) # <<>> =>
           JStr(Gathered(PathOpenAi, k)) \in FieldValues(emitted[k])

\* C16: at most one read is outstanding; while one is, every row of the buffer read
\* before has been iterated, the consumer has taken every value emitted and has
\* asked for one more, and the source has not reported done.  parse never emits
\* more values than the consumer has asked for.
OneReadOnDemand ==
  /\ outstanding \in {0, 1}
  /\ Len(emitted) <= requested
  /\ outstanding = 1 =>
       /\ pc = "await"
       /\ rows = <<>>
       /\ ~done
       /\ requested = Len(emitted) + 1
  /\ pc \in {"read", "await"} => outstanding = (IF pc = "await" THEN 1 ELSE 0) /\ ~done

\* a read is outstanding after values of an earlier buffer were emitted and taken
OneReadWitness ==
  /\ outstanding = 1
  /\ Len(emitted) >= 1
  /\ requested = Len(emitted) + 1
  /\ pos < Len(stream)

\* the option bundle o without the option k
Without(o, k) == [x \in (DOMAIN o) \ {k} |-> o[x]]

DataRecords(bytes) == SelectSeq(SingleReadRecords(bytes), HasDataPrefix)

\* C18: when parse ends at end-of-stream, no chunkParser having returned an Error or
\* thrown, it has emitted one value per "data:" record of the stream, the k-th
\* value made from the k-th such record.
OnePerRecordInOrder ==
  (ended = "break" /\ \A k \in 1 .. Len(emitted) : emitted[k].t # "error") =>
    /\ Len(emitted) = Len(DataRecords(stream))
    /\ sources = DataRecords(stream)
    /\ emitted = RunAlone(options, DataRecords(stream)).emitted

\* C19: parse ends; once the source has reported done no read is issued or awaited,
\* nothing more is decoded, and the rows left are only taken away, one by one.
TerminatesAfterDone ==
  /\ <>(pc = "done")
  /\ [](done => pc \in {"loop", "yield", "done"})
  /\ [][done => (done' /\ assembled' = assembled /\ pos' = pos
                 /\ Len(rows') <= Len(rows))]_vars

\* parse ended at end-of-stream after it had emitted two values
TerminatesWitness ==
  /\ pc = "done"
  /\ ended = "break"
  /\ done
  /\ rows = <<>>
  /\ outstanding = 0
  /\ Len(emitted) >= 2

\* C20: with the DeepSeek or DifyApp preset a "data:" row whose payload is not JSON
\* emits nothing and is the last row processed: parse ends in the catch.  With the
\* OpenAi or Dify preset such a row emits the text emitted before it (the empty text
\* if it is the first), every "data:" row processed has its emission, and parse
\* does not end with rows left.
MalformedByStrategy ==
  /\ preset \in {"DeepSeek", "DifyApp"} =>
       /\ \A k \in 1 .. Len(sources) : ~Malformed(sources[k])
       /\ \A i \in 1 .. Len(records) :
            (HasDataPrefix(records[i]) /\ Malformed(records[i])) =>
              (i = Len(records) /\ pc = "done" /\ ended = "catch")
  /\ preset \in {"OpenAi", "Dify"} =>
       /\ Len(emitted) = CountData(records)
       /\ \A k \in 1 .. Len(sources) :
            Malformed(sources[k]) =>
              emitted[k] = (IF k = 1 THEN JStr(<<>>) ELSE emitted[k - 1])
       /\ ended # "return"
       /\ pc = "done" => rows = <<>>

\* the DeepSeek preset met the sentinel with a "data:" row after it in the buffer,
\* and ended without emitting anything
MalformedByStrategyWitness ==
  /\ preset = "DeepSeek"
  /\ ended = "catch"
  /\ records # <<>>
  /\ HasDataPrefix(Last(records))
  /\ Malformed(Last(records))
  /\ emitted = <<>>
  /\ rows # <<>>
  /\ HasDataPrefix(Head(rows))
  /\ ~Malformed(Head(rows))

====
